---- MODULE Spec2Model ----
(***************************************************************************)
(* SmartPark (ManagePark): allocation of airport parking stands to         *)
(* flights.  The model follows serviceAllocation.py (allocation engine,    *)
(* forced reallocation, archival sweep), models.py (records and derived    *)
(* stand state) and views.py (the request handlers that edit flights,      *)
(* stands and incidents and trigger the engine).                           *)
(*                                                                         *)
(* A request handler runs to completion: each handler is one action.       *)
(* Django specifics that decide behaviour are modelled as they execute:    *)
(*   - a QuerySet is lazy: it is a stored condition, evaluated on the      *)
(*     table as it is at the moment it is iterated, counted or updated;    *)
(*   - in an UpdateView, form validation (ModelForm._post_clean ->         *)
(*     construct_instance) writes the cleaned values into form.instance,   *)
(*     which is the very object held in self.object, before form_valid.    *)
(***************************************************************************)
EXTENDS Integers, Sequences, FiniteSets, TLC

\* ---- bounds of the model ------------------------------------------------
NbVols == 2
NbStands == 2
NbIncidents == 1
MaxNow == 2

\* null foreign key / null DateTimeField
NULL == 0

Vols == 1..NbVols
Stands == 1..NbStands
Incidents == 1..NbIncidents

\* occupation intervals (debut, fin) a form may submit; instants are >= 1
Horaires == {<<1, 2>>, <<2, 3>>}

\* footprints (longueur, largeur) a stand form may submit
DimsStand == {<<1, 1>>, <<2, 2>>}

\* the aircraft registry: Avion.longueur, Avion.largeur
Avions == <<[longueur |-> 1, largeur |-> 1], [longueur |-> 2, largeur |-> 2]>>

\* the aircraft a flight form may name
AvionsSaisis == {2}

VARIABLES vols, stands, incidents, now, last, journal, runs

vars == <<vols, stands, incidents, now, last, journal, runs>>

\* ---- records ------------------------------------------------------------
\* a row of Vol that is not in the table
VolAbsent ==
  [existe |-> FALSE, debut |-> NULL, fin |-> NULL, avion |-> NULL,
   statut |-> "ATTENTE", stand_alloue |-> NULL]

\* a row of Stand that is not in the table
StandAbsent ==
  [existe |-> FALSE, longueur |-> 1, largeur |-> 1, distance |-> 1,
   disponibilite |-> TRUE]

\* a row of Incident that is not in the table
IncidentAbsent == [existe |-> FALSE, stand |-> NULL, statut |-> "RESOLU"]

\* ---- queries ------------------------------------------------------------
\* incidents_rapportes.filter(statut__in=['OUVERT', 'ENCOURS']).exists()
incident_actif(I, s) ==
  \E i \in DOMAIN I :
    I[i].existe /\ I[i].stand = s /\ I[i].statut \in {"OUVERT", "ENCOURS"}

\* stands_actifs without the exclusion of the stands under an active incident
stands_actifs_sans_incidents(S, I) ==
  {s \in DOMAIN S : S[s].existe /\ S[s].disponibilite}

\* Stand.objects.filter(disponibilite=True).exclude(incidents actifs)
stands_actifs(S, I) ==
  {s \in DOMAIN S : S[s].existe /\ S[s].disponibilite /\ ~incident_actif(I, s)}

\* all the sequences that list the set E once each
Ordres(E) ==
  {p \in [1..Cardinality(E) -> E] : \A i, j \in 1..Cardinality(E) : p[i] = p[j] => i = j}

\* .order_by('distance_stand_aerogare'): rows of equal distance come in
\* whatever order the database returns them
order_by_distance(E, S) ==
  {p \in Ordres(E) :
     \A i, j \in 1..Len(p) : i < j => S[p[i]].distance <= S[p[j]].distance}

\* order_by_debut without the ordering: the rows in any order
order_by_rien(E, V) == Ordres(E)

\* .order_by('date_heure_debut_occupation'): rows of equal start come in
\* whatever order the database returns them; rows with a null start come
\* all first or all last, as the database backend sorts nulls
order_by_debut(E, V) ==
  {p \in Ordres(E) :
     /\ \A i, j \in 1..Len(p) :
          (i < j /\ V[p[i]].debut # NULL /\ V[p[j]].debut # NULL)
            => V[p[i]].debut <= V[p[j]].debut
     /\ \/ \A i, j \in 1..Len(p) : (i < j /\ V[p[j]].debut = NULL) => V[p[i]].debut = NULL
        \/ \A i, j \in 1..Len(p) : (i < j /\ V[p[i]].debut = NULL) => V[p[j]].debut = NULL}

\* vols_en_attente without the filter on statut: every row of the scope
vols_de_la_portee(V, scope) == {v \in scope : V[v].existe}

\* vols.filter(statut='ATTENTE') over the rows of a scope
vols_en_attente(V, scope) ==
  {v \in scope : V[v].existe /\ V[v].statut = "ATTENTE"}

\* ---- derived stand state (models.Stand properties) ------------------------
\* statut_operationnel counting only the flights whose end lies ahead
statut_operationnel_actuel(S, I, V, s) ==
  IF ~S[s].disponibilite
     \/ \E i \in DOMAIN I : I[i].existe /\ I[i].stand = s /\ I[i].statut \in {"OUVERT", "ENCOURS"}
    THEN "HORS_SERVICE"
  ELSE IF \E v \in DOMAIN V : /\ V[v].existe /\ V[v].stand_alloue = s
                              /\ V[v].statut = "ALLOUE" /\ V[v].fin > now
    THEN "OCCUPE"
  ELSE "LIBRE"

\* statut_operationnel without the test of the incidents
statut_operationnel_sans_incident(S, I, V, s) ==
  IF ~S[s].disponibilite THEN "HORS_SERVICE"
  ELSE IF \E v \in DOMAIN V : V[v].existe /\ V[v].stand_alloue = s /\ V[v].statut = "ALLOUE"
    THEN "OCCUPE"
  ELSE "LIBRE"

\* Stand.statut_operationnel, models.py 53-64
statut_operationnel(S, I, V, s) ==
  IF ~S[s].disponibilite \/ incident_actif(I, s) THEN "HORS_SERVICE"
  ELSE IF \E v \in DOMAIN V : V[v].existe /\ V[v].stand_alloue = s /\ V[v].statut = "ALLOUE"
    THEN "OCCUPE"
  ELSE "LIBRE"

\* Stand.vol_occupant_actuel, models.py 74-90: the rows the filter selects
\* at instant t (debut <= t, fin > t, ALLOUE, on the stand)
occupants_actuels(V, s, t) ==
  {v \in DOMAIN V : /\ V[v].existe /\ V[v].stand_alloue = s /\ V[v].statut = "ALLOUE"
                    /\ V[v].debut # NULL /\ V[v].debut <= t
                    /\ V[v].fin # NULL /\ V[v].fin > t}

\* .first(): None on an empty result, otherwise the row of least primary
\* key, and primary keys are random UUIDs: any of the rows selected
vol_occupant_actuel(V, s, t) ==
  IF occupants_actuels(V, s, t) = {} THEN {NULL} ELSE occupants_actuels(V, s, t)

\* ---- comparisons of nullable DateTimeFields ------------------------------
\* a lookup column__lte=b, __gte=b, __gt=b on a null column selects nothing
lte(a, b) == a # NULL /\ a <= b

gte(a, b) == a # NULL /\ a >= b

\* gt that also holds at equality
gt_ou_egal(a, b) == a # NULL /\ a >= b

gt(a, b) == a # NULL /\ a > b

\* ---- the allocation engine (serviceAllocation.allouer_stands_optimise) ---
\* compatible with the comparison turned round
compatible_inverse(avion, stand) ==
  stand.longueur <= avion.longueur /\ stand.largeur <= avion.largeur

\* line 61: the stand's dimensions are >= the aircraft's
compatible(avion, stand) ==
  avion.longueur <= stand.longueur /\ avion.largeur <= stand.largeur

\* dimensions_exactes comparing the length only
dimensions_exactes_longueur(avion, stand) ==
  stand.longueur = avion.longueur

\* line 79: the stand has exactly the aircraft's dimensions
dimensions_exactes(avion, stand) ==
  stand.longueur = avion.longueur /\ stand.largeur = avion.largeur

\* surface adding the sides instead of multiplying them
surface_somme(stand) == stand.longueur + stand.largeur

\* lines 88-89
surface(stand) == stand.longueur * stand.largeur

\* conflict_exists with strict comparisons in the exclusion
conflict_exists_strict(V, s, dt_debut, dt_fin) ==
  \E e \in DOMAIN V :
    /\ V[e].existe
    /\ V[e].stand_alloue = s
    /\ V[e].statut = "ALLOUE"
    /\ ~(V[e].fin < dt_debut \/ V[e].debut > dt_fin)

\* lines 66-71: an ALLOUE flight of the stand that is not excluded by
\* (fin <= dt_debut OR debut >= dt_fin)
conflict_exists(V, s, dt_debut, dt_fin) ==
  \E e \in DOMAIN V :
    /\ V[e].existe
    /\ V[e].stand_alloue = s
    /\ V[e].statut = "ALLOUE"
    /\ ~(lte(V[e].fin, dt_debut) \/ gte(V[e].debut, dt_fin))

\* lines 57-97: one scan of the pool for one flight; k is the position in
\* the pool, stand_compatible the smallest compatible stand seen so far.
\* Returns the stand chosen or NULL.
RECURSIVE parcourir_stands(_, _, _, _, _, _)
parcourir_stands(V, S, vol, pool, k, stand_compatible) ==
  IF k > Len(pool) THEN stand_compatible
  ELSE
    LET stand == pool[k]
        avion == Avions[vol.avion]
    IN IF ~compatible(avion, S[stand])
         THEN parcourir_stands(V, S, vol, pool, k + 1, stand_compatible)
       ELSE IF conflict_exists(V, stand, vol.debut, vol.fin)
         THEN parcourir_stands(V, S, vol, pool, k + 1, stand_compatible)
       ELSE IF dimensions_exactes(avion, S[stand])
         THEN stand
       ELSE IF stand_compatible = NULL
         THEN parcourir_stands(V, S, vol, pool, k + 1, stand)
       ELSE IF surface(S[stand]) < surface(S[stand_compatible])
         THEN parcourir_stands(V, S, vol, pool, k + 1, stand)
       ELSE parcourir_stands(V, S, vol, pool, k + 1, stand_compatible)

\* donnees_completes looking at the aircraft only
donnees_completes_avion(vol) == vol.avion # NULL

\* line 47: aircraft and both endpoints are present
donnees_completes(vol) ==
  vol.avion # NULL /\ vol.debut # NULL /\ vol.fin # NULL

\* lines 42-119: the loop over the flights.  V0 holds the rows as read when
\* the loop starts (vol.save() writes the row object read then), acc.vols
\* the table as committed so far, echecs the flights whose save() raises.
RECURSIVE boucle_vols(_, _, _, _, _, _, _)
boucle_vols(V0, S, ordre, pool, echecs, k, acc) ==
  IF k > Len(ordre) THEN acc
  ELSE
    LET v == ordre[k]
        vol == V0[v]
    IN IF ~donnees_completes(vol)
         THEN boucle_vols(V0, S, ordre, pool, echecs, k + 1,
                [acc EXCEPT !.unallocated = @ + 1,
                            !.trace = Append(@, [vol |-> v, examine |-> FALSE,
                                                 best_stand |-> NULL, ok |-> FALSE])])
       ELSE
         LET best_stand == parcourir_stands(acc.vols, S, vol, pool, 1, NULL)
         IN IF best_stand # NULL /\ v \notin echecs
              THEN boucle_vols(V0, S, ordre, pool, echecs, k + 1,
                     [acc EXCEPT !.vols = [@ EXCEPT ![v] =
                                    [vol EXCEPT !.stand_alloue = best_stand,
                                                !.statut = "ALLOUE"]],
                                 !.allocated = @ + 1,
                                 !.trace = Append(@, [vol |-> v, examine |-> TRUE,
                                                      best_stand |-> best_stand, ok |-> TRUE])])
            ELSE boucle_vols(V0, S, ordre, pool, echecs, k + 1,
                     [acc EXCEPT !.unallocated = @ + 1,
                                 !.trace = Append(@, [vol |-> v, examine |-> TRUE,
                                                      best_stand |-> best_stand, ok |-> FALSE])])

\* the engine returning without counting the flights it left waiting
allouer_stands_optimise_sans_compte(V, S, ordre, pool, echecs) ==
  [boucle_vols(V, S, ordre, pool, echecs, 1,
               [vols |-> V, allocated |-> 0, unallocated |-> 0, trace |-> <<>>])
     EXCEPT !.unallocated = 0]

\* the engine leaving the loop at the first flight whose save() raises
allouer_stands_optimise_abandon(V, S, ordre, pool, echecs) ==
  LET rangs == {i \in 1..Len(ordre) : ordre[i] \in echecs}
      dernier == IF rangs = {} THEN Len(ordre)
                 ELSE CHOOSE i \in rangs : \A j \in rangs : i <= j
  IN boucle_vols(V, S, SubSeq(ordre, 1, dernier), pool, echecs, 1,
                 [vols |-> V, allocated |-> 0, unallocated |-> 0, trace |-> <<>>])

\* the engine on the flights of ordre with the stand pool in scan order
allouer_stands_optimise(V, S, ordre, pool, echecs) ==
  boucle_vols(V, S, ordre, pool, echecs, 1,
              [vols |-> V, allocated |-> 0, unallocated |-> 0, trace |-> <<>>])

\* ---- history, read by the properties --------------------------------------
\* last: which request ran last and what it reported
Rien ==
  [op |-> "init", vol |-> NULL, stand |-> NULL, incident |-> NULL,
   allocated |-> 0, unallocated |-> 0, count |-> 0,
   succes |-> FALSE, modifie |-> FALSE]

\* journal: the detail of the last engine run (the table it started from,
\* the order of the flights, the pool in scan order, what each turn chose)
AucunVol == [v \in Vols |-> VolAbsent]

JournalVide == [avant |-> AucunVol, ordre |-> <<>>, pool |-> <<>>, trace |-> <<>>]

Journal(V, ordre, pool, r) ==
  [avant |-> V, ordre |-> ordre, pool |-> pool, trace |-> r.trace]

\* runs: the engine runs in progress when requests overlap in time; a run
\* that is not in progress is "repos".  Requests that run alone leave it
\* untouched.
NbRuns == 2

Runs == 1..NbRuns

RunAuRepos ==
  [pc |-> "repos", lus |-> <<>>, ordre |-> <<>>, pool |-> <<>>, pool_lu |-> FALSE,
   tailles |-> <<>>, k |-> 1, best_stand |-> NULL, allocated |-> 0, unallocated |-> 0]

\* the sets of flights whose save() may raise during one request
MaxEchecs == 1

echecs_possibles(E) == {F \in SUBSET E : Cardinality(F) <= MaxEchecs}

\* ---- batch run -----------------------------------------------------------
\* AllouerStandsView.post / LancerAllocationView.post: the engine on every
\* ATTENTE flight.  pool and ordre are the rows as the database returns
\* them, echecs the flights whose save() raises.
AllouerStandsView_post(pool, ordre, echecs) ==
  /\ pool \in order_by_distance(stands_actifs(stands, incidents), stands)
  /\ ordre \in order_by_debut(vols_en_attente(vols, DOMAIN vols), vols)
  /\ echecs \subseteq vols_en_attente(vols, DOMAIN vols)
  /\ LET r == allouer_stands_optimise(vols, stands, ordre, pool, echecs)
     IN /\ vols' = r.vols
        /\ last' = [Rien EXCEPT !.op = "batch",
                                !.allocated = r.allocated,
                                !.unallocated = r.unallocated]
  /\ UNCHANGED <<stands, incidents, now>>

\* ---- forced reallocation of one flight -----------------------------------
\* reallocation_possible without the check of an active incident
reallocation_possible_sans_incident(V, I, v) ==
  /\ V[v].existe
  /\ V[v].statut = "ALLOUE"
  /\ V[v].stand_alloue # NULL

\* serviceAllocation.reallouer_vol_unique: the preconditions of lines 132-149
reallocation_possible(V, I, v) ==
  /\ V[v].existe
  /\ V[v].statut = "ALLOUE"
  /\ V[v].stand_alloue # NULL
  /\ incident_actif(I, V[v].stand_alloue)

\* liberer_vol that does not write the release
liberer_vol_sans_effet(V, v) == V

\* lines 154-156: the flight is saved ATTENTE without stand
liberer_vol(V, v) ==
  [V EXCEPT ![v] = [@ EXCEPT !.statut = "ATTENTE", !.stand_alloue = NULL]]

\* ReallouerVolActionView.post with action = 'reallouer'
reallouer_vol_unique(v, pool, echecs) ==
  /\ pool \in order_by_distance(stands_actifs(stands, incidents), stands)
  /\ echecs \subseteq {v}
  /\ IF ~reallocation_possible(vols, incidents, v)
       THEN /\ echecs = {}
            /\ pool = CHOOSE p \in order_by_distance(stands_actifs(stands, incidents), stands) : TRUE
            /\ last' = [Rien EXCEPT !.op = "reallouer", !.vol = v]
            /\ vols' = vols
       ELSE
         LET r == allouer_stands_optimise(liberer_vol(vols, v), stands, <<v>>, pool, echecs)
         IN /\ vols' = r.vols
            /\ last' = [Rien EXCEPT !.op = "reallouer", !.vol = v,
                                    !.stand = vols[v].stand_alloue,
                                    !.allocated = r.allocated,
                                    !.unallocated = r.unallocated,
                                    !.modifie = TRUE,
                                    !.succes = (r.allocated > 0)]
  /\ UNCHANGED <<stands, incidents, now>>

\* ReallouerVolActionView.post with action = 'garder': every active incident
\* of the flight's stand is resolved
ReallouerVolActionView_garder(v) ==
  /\ vols[v].existe
  /\ vols[v].stand_alloue # NULL
  /\ incidents' = [i \in DOMAIN incidents |->
                     IF incidents[i].existe
                        /\ incidents[i].stand = vols[v].stand_alloue
                        /\ incidents[i].statut \in {"OUVERT", "ENCOURS"}
                       THEN [incidents[i] EXCEPT !.statut = "RESOLU"]
                       ELSE incidents[i]]
  /\ last' = [Rien EXCEPT !.op = "garder", !.vol = v, !.stand = vols[v].stand_alloue]
  /\ UNCHANGED <<vols, stands, now>>

\* ---- archival sweep ------------------------------------------------------
\* vols_termines taking only the flights that ended strictly before t
vols_termines_strict(V, t) ==
  {v \in DOMAIN V : V[v].existe /\ V[v].statut = "ALLOUE" /\ V[v].fin # NULL /\ V[v].fin < t}

\* serviceAllocation.liberer_stands_termines, lines 185-188
vols_termines(V, t) ==
  {v \in DOMAIN V : V[v].existe /\ V[v].statut = "ALLOUE" /\ lte(V[v].fin, t)}

\* lines 192-196: each such flight is saved with statut = 'TERMINE'
liberer_stands_termines ==
  /\ vols' = [v \in DOMAIN vols |->
                IF v \in vols_termines(vols, now)
                  THEN [vols[v] EXCEPT !.statut = "TERMINE"]
                  ELSE vols[v]]
  /\ last' = [Rien EXCEPT !.op = "liberer",
                          !.count = Cardinality(vols_termines(vols, now))]
  /\ UNCHANGED <<stands, incidents, now>>

\* ---- flights -------------------------------------------------------------
\* the row a create view inserts next (primary keys are fresh)
prochain(T) == CHOOSE k \in DOMAIN T : ~T[k].existe /\ \A j \in DOMAIN T : j < k => T[j].existe

\* VolCreateView.form_valid: the flight is stored ATTENTE with its aircraft
VolCreateView_form_valid(h, a) ==
  /\ \E k \in DOMAIN vols : ~vols[k].existe
  /\ vols' = [vols EXCEPT ![prochain(vols)] =
                [existe |-> TRUE, debut |-> h[1], fin |-> h[2], avion |-> a,
                 statut |-> "ATTENTE", stand_alloue |-> NULL]]
  /\ last' = [Rien EXCEPT !.op = "vol_create", !.vol = prochain(vols)]
  /\ UNCHANGED <<stands, incidents, now>>

\* construct_instance_vol leaving the instance as it was stored
construct_instance_vol_copie(instance, cleaned_data) == instance

\* ModelForm._post_clean -> construct_instance: the cleaned values of the
\* form's fields are written into the instance the form was given
construct_instance_vol(instance, cleaned_data) ==
  [instance EXCEPT !.debut = cleaned_data.debut, !.fin = cleaned_data.fin]

\* VolUpdateView.form_valid: self.object is form.instance, already carrying
\* the cleaned values when the two are compared (lines 213-214)
VolUpdateView_form_valid(v, h) ==
  /\ vols[v].existe
  /\ LET cleaned_data == [debut |-> h[1], fin |-> h[2]]
         object == construct_instance_vol(vols[v], cleaned_data)
         reinitialise == \/ cleaned_data.debut # object.debut
                         \/ cleaned_data.fin # object.fin
         instance == IF reinitialise
                       THEN [object EXCEPT !.statut = "ATTENTE", !.stand_alloue = NULL]
                       ELSE object
     IN /\ vols' = [vols EXCEPT ![v] = instance]
        /\ last' = [Rien EXCEPT !.op = "vol_update", !.vol = v,
                                !.succes = (vols[v].statut = "ALLOUE"),
                                !.modifie = (vols[v].debut # h[1] \/ vols[v].fin # h[2])]
  /\ UNCHANGED <<stands, incidents, now>>

\* ---- stands --------------------------------------------------------------
\* distances to the terminal a stand form may submit
Distances == {1}

\* StandCreateView.form_valid: disponibilite is forced to True
StandCreateView_form_valid(d, dist) ==
  /\ \E k \in DOMAIN stands : ~stands[k].existe
  /\ stands' = [stands EXCEPT ![prochain(stands)] =
                  [existe |-> TRUE, longueur |-> d[1], largeur |-> d[2],
                   distance |-> dist, disponibilite |-> TRUE]]
  /\ last' = [Rien EXCEPT !.op = "stand_create", !.stand = prochain(stands)]
  /\ UNCHANGED <<vols, incidents, now>>

\* StandUpdateView.form_valid: dimensions and availability are saved as
\* submitted; allocated flights are not touched
StandUpdateView_form_valid(s, d, dispo) ==
  /\ stands[s].existe
  /\ stands' = [stands EXCEPT ![s] = [@ EXCEPT !.longueur = d[1], !.largeur = d[2],
                                               !.disponibilite = dispo]]
  /\ last' = [Rien EXCEPT !.op = "stand_update", !.stand = s,
                          !.modifie = (stands[s].longueur # d[1] \/ stands[s].largeur # d[2])]
  /\ UNCHANGED <<vols, incidents, now>>

\* StandDeleteView.form_valid, lines 357-360
vols_futurs(V, s, t) ==
  {v \in DOMAIN V : V[v].existe /\ V[v].stand_alloue = s
                    /\ V[v].statut = "ALLOUE" /\ gt(V[v].debut, t)}

\* StandDeleteView.form_valid: refused while a future flight is allocated;
\* otherwise the row is deleted, Vol.stand_alloue is SET_NULL and the
\* stand's incidents are deleted with it (CASCADE)
StandDeleteView_form_valid(s) ==
  /\ stands[s].existe
  /\ IF vols_futurs(vols, s, now) # {}
       THEN /\ last' = [Rien EXCEPT !.op = "stand_delete", !.stand = s]
            /\ UNCHANGED <<vols, stands, incidents, now>>
       ELSE /\ stands' = [stands EXCEPT ![s] = StandAbsent]
            /\ vols' = [v \in DOMAIN vols |->
                          IF vols[v].existe /\ vols[v].stand_alloue = s
                            THEN [vols[v] EXCEPT !.stand_alloue = NULL]
                            ELSE vols[v]]
            /\ incidents' = [i \in DOMAIN incidents |->
                               IF incidents[i].existe /\ incidents[i].stand = s
                                 THEN IncidentAbsent
                                 ELSE incidents[i]]
            /\ last' = [Rien EXCEPT !.op = "stand_delete", !.stand = s, !.succes = TRUE]
            /\ UNCHANGED now

\* ---- incidents -----------------------------------------------------------
\* affected_vols without the condition on the start of the occupation
affected_vols_en_cours(V, s, t) ==
  {v \in DOMAIN V : V[v].existe /\ V[v].stand_alloue = s /\ V[v].statut = "ALLOUE"}

\* views.handle_incident_impact, lines 381-385: the QuerySet affected_vols
affected_vols(V, s, t) ==
  {v \in DOMAIN V : V[v].existe /\ V[v].stand_alloue = s
                    /\ V[v].statut = "ALLOUE" /\ gt(V[v].debut, t)}

\* the rows the engine is handed at line 400: the QuerySet affected_vols is
\* evaluated again there, on the table as the update of line 390 left it
vols_a_traiter(V, s, t) == affected_vols(V, s, t)

\* handle_incident_impact that releases nothing
handle_incident_impact_sans_effet(s, I, base) ==
  /\ vols' = vols
  /\ last' = base

\* views.handle_incident_impact with the incident table I already saved
handle_incident_impact(s, I, base) ==
  LET affectes == affected_vols(vols, s, now)
      count == Cardinality(affectes)
  IN IF count > 0
       THEN
         LET maj == [v \in DOMAIN vols |->
                       IF v \in affectes
                         THEN [vols[v] EXCEPT !.statut = "ATTENTE", !.stand_alloue = NULL]
                         ELSE vols[v]]
             attente == vols_en_attente(maj, vols_a_traiter(maj, s, now))
         IN \E pool \in order_by_distance(stands_actifs(stands, I), stands) :
              \E ordre \in order_by_debut(attente, maj) :
                \E echecs \in echecs_possibles(attente) :
                  LET r == allouer_stands_optimise(maj, stands, ordre, pool, echecs)
                  IN /\ vols' = r.vols
                     /\ last' = [base EXCEPT !.count = count,
                                             !.allocated = r.allocated,
                                             !.unallocated = r.unallocated]
       ELSE /\ vols' = vols
            /\ last' = base

\* IncidentCreateView.form_valid: stored OUVERT, then the impact is handled
IncidentCreateView_form_valid(s) ==
  /\ stands[s].existe
  /\ \E k \in DOMAIN incidents : ~incidents[k].existe
  /\ incidents' = [incidents EXCEPT ![prochain(incidents)] =
                     [existe |-> TRUE, stand |-> s, statut |-> "OUVERT"]]
  /\ handle_incident_impact(s, incidents',
        [Rien EXCEPT !.op = "incident_create", !.stand = s,
                     !.incident = prochain(incidents)])
  /\ UNCHANGED <<stands, now>>

\* ModelForm._post_clean -> construct_instance for the incident form
construct_instance_incident(instance, cleaned_data) ==
  [instance EXCEPT !.stand = cleaned_data.stand, !.statut = cleaned_data.statut]

\* IncidentUpdateView.form_valid: original_statut is read from self.object,
\* which is form.instance and already carries the cleaned values (line 451)
IncidentUpdateView_form_valid(i, s, statut) ==
  /\ incidents[i].existe
  /\ stands[s].existe
  /\ LET cleaned_data == [stand |-> s, statut |-> statut]
         object == construct_instance_incident(incidents[i], cleaned_data)
         original_statut == object.statut
         new_statut == cleaned_data.statut
         trigger_reallocation == /\ original_statut = "RESOLU"
                                 /\ new_statut \in {"OUVERT", "ENCOURS"}
         base == [Rien EXCEPT !.op = "incident_update", !.stand = s, !.incident = i,
                              !.modifie = (incidents[i].statut = "RESOLU"
                                           /\ statut \in {"OUVERT", "ENCOURS"})]
     IN /\ incidents' = [incidents EXCEPT ![i] = object]
        /\ IF trigger_reallocation
             THEN handle_incident_impact(object.stand, incidents', base)
             ELSE /\ vols' = vols
                  /\ last' = base
  /\ UNCHANGED <<stands, now>>

\* IncidentResolutionView.form_valid: on RESOLU with no other active
\* incident on the stand, the stand's disponibilite is set to True
IncidentResolutionView_form_valid(i, statut) ==
  /\ incidents[i].existe
  /\ LET s == incidents[i].stand
         incidents_actifs_restants ==
           {j \in DOMAIN incidents \ {i} : incidents[j].existe /\ incidents[j].stand = s
                                    /\ incidents[j].statut \in {"OUVERT", "ENCOURS"}}
     IN /\ stands' = IF statut = "RESOLU" /\ incidents_actifs_restants = {}
                       THEN [stands EXCEPT ![s] = [@ EXCEPT !.disponibilite = TRUE]]
                       ELSE stands
        /\ incidents' = [incidents EXCEPT ![i] = [@ EXCEPT !.statut = statut]]
        /\ last' = [Rien EXCEPT !.op = "incident_resolution", !.stand = s, !.incident = i]
  /\ UNCHANGED <<vols, now>>

\* ---- time ----------------------------------------------------------------
\* timezone.now() advances between requests
Tick ==
  /\ now < MaxNow
  /\ now' = now + 1
  /\ last' = [Rien EXCEPT !.op = "tick"]
  /\ UNCHANGED <<vols, stands, incidents>>

\* ---- request and response ------------------------------------------------
\* A handler ends with a redirect; the page that follows renders the messages
\* of the request once and drops them.  A request is served when no report
\* is pending.
Repondre ==
  /\ last # Rien
  /\ last' = Rien
  /\ UNCHANGED <<vols, stands, incidents, now>>

\* ---- the system ----------------------------------------------------------
Init ==
  /\ vols = [v \in Vols |-> VolAbsent]
  /\ stands = [s \in Stands |-> StandAbsent]
  /\ incidents = [i \in Incidents |-> IncidentAbsent]
  /\ now = 0
  /\ last = Rien
  /\ journal = JournalVide
  /\ runs = [r \in Runs |-> RunAuRepos]

\* the stand pools and flight orders the database may return
pools == order_by_distance(stands_actifs(stands, incidents), stands)

ordres_attente == order_by_debut(vols_en_attente(vols, Vols), vols)

Next ==
  \/ /\ last = Rien
     /\ \E pool \in pools, ordre \in ordres_attente, echecs \in echecs_possibles(vols_en_attente(vols, Vols)) :
            AllouerStandsView_post(pool, ordre, echecs) /\ UNCHANGED <<journal, runs>>
  \/ /\ last = Rien
     /\ \E v \in Vols : \E pool \in pools, echecs \in echecs_possibles({v}) :
            reallouer_vol_unique(v, pool, echecs) /\ UNCHANGED <<journal, runs>>
  \/ /\ last = Rien
     /\ \E v \in Vols : ReallouerVolActionView_garder(v) /\ UNCHANGED <<journal, runs>>
  \/ /\ last = Rien
     /\ liberer_stands_termines /\ UNCHANGED <<journal, runs>>
  \/ /\ last = Rien
     /\ \E h \in Horaires, a \in AvionsSaisis :
            VolCreateView_form_valid(h, a) /\ UNCHANGED <<journal, runs>>
  \/ /\ last = Rien
     /\ \E v \in Vols, h \in Horaires :
            VolUpdateView_form_valid(v, h) /\ UNCHANGED <<journal, runs>>
  \/ /\ last = Rien
     /\ \E d \in DimsStand, dist \in Distances :
            StandCreateView_form_valid(d, dist) /\ UNCHANGED <<journal, runs>>
  \/ /\ last = Rien
     /\ \E s \in Stands, d \in DimsStand, dispo \in BOOLEAN :
            StandUpdateView_form_valid(s, d, dispo) /\ UNCHANGED <<journal, runs>>
  \/ /\ last = Rien
     /\ \E s \in Stands : StandDeleteView_form_valid(s) /\ UNCHANGED <<journal, runs>>
  \/ /\ last = Rien
     /\ \E s \in Stands : IncidentCreateView_form_valid(s) /\ UNCHANGED <<journal, runs>>
  \/ /\ last = Rien
     /\ \E i \in Incidents, s \in Stands, statut \in {"OUVERT", "ENCOURS", "RESOLU"} :
            IncidentUpdateView_form_valid(i, s, statut) /\ UNCHANGED <<journal, runs>>
  \/ /\ last = Rien
     /\ \E i \in Incidents, statut \in {"OUVERT", "ENCOURS", "RESOLU"} :
            IncidentResolutionView_form_valid(i, statut) /\ UNCHANGED <<journal, runs>>
  \/ /\ last = Rien
     /\ Tick /\ UNCHANGED <<journal, runs>>
  \/ Repondre /\ UNCHANGED <<journal, runs>>

Spec == Init /\ [][Next]_vars

\* ---- the engine alone, from the tables it may be started on -------------
EngineVols == 3
EngineStands == 3

\* footprints of the stands of the engine's tables
EngineDims == {<<1, 1>>, <<2, 2>>, <<1, 3>>}

\* occupation intervals of the flights of the engine's tables
EngineHoraires == {<<1, 2>>, <<2, 3>>, <<1, 3>>}

\* distances to the terminal of the stands 1, 2, 3, ... of the engine's tables
EngineDistances == {[s \in 1..EngineStands |-> IF s = 1 THEN 1 ELSE 2],
                    [s \in 1..EngineStands |-> IF s = 1 THEN 2 ELSE 1]}

\* the flights waiting for a stand: any interval, either aircraft; all but
\* the first may lack aircraft or interval
EngineAttente(v) ==
  {[existe |-> TRUE, debut |-> h[1], fin |-> h[2], avion |-> a,
    statut |-> "ATTENTE", stand_alloue |-> NULL] :
      h \in EngineHoraires, a \in DOMAIN Avions}
  \cup (IF v = 1 THEN {}
        ELSE {[existe |-> TRUE, debut |-> 1, fin |-> 2, avion |-> NULL,
               statut |-> "ATTENTE", stand_alloue |-> NULL],
              [existe |-> TRUE, debut |-> NULL, fin |-> NULL, avion |-> 1,
               statut |-> "ATTENTE", stand_alloue |-> NULL],
              [existe |-> TRUE, debut |-> NULL, fin |-> 2, avion |-> 1,
               statut |-> "ATTENTE", stand_alloue |-> NULL],
              [existe |-> TRUE, debut |-> 1, fin |-> NULL, avion |-> 1,
               statut |-> "ATTENTE", stand_alloue |-> NULL]})

\* the last flight: ALLOUE on stand 1 or 2 over any interval, or TERMINE on
\* stand 1 or waiting over the longest interval
EngineOccupant ==
  {[existe |-> TRUE, debut |-> h[1], fin |-> h[2], avion |-> 1,
    statut |-> "ALLOUE", stand_alloue |-> s] : h \in EngineHoraires, s \in {1, 2}}
  \cup {[existe |-> TRUE, debut |-> 1, fin |-> 3, avion |-> 1,
         statut |-> "TERMINE", stand_alloue |-> 1],
        [existe |-> TRUE, debut |-> 1, fin |-> 3, avion |-> 1,
         statut |-> "ATTENTE", stand_alloue |-> NULL]}

\* stands 1 and 2 take any footprint; the stands after them are large
InitEngine ==
  /\ \E dims \in [1..EngineStands -> EngineDims], dist \in EngineDistances :
       /\ \A s \in 3..EngineStands : dims[s] = <<2, 2>>
       /\ stands = [s \in 1..EngineStands |->
                   [existe |-> TRUE, longueur |-> dims[s][1], largeur |-> dims[s][2],
                    distance |-> dist[s], disponibilite |-> TRUE]]
  /\ \E occ \in EngineOccupant :
       \E att \in [1..(EngineVols - 1) -> UNION {EngineAttente(v) : v \in 1..(EngineVols - 1)}] :
         /\ \A v \in 1..(EngineVols - 1) : att[v] \in EngineAttente(v)
         /\ vols = [v \in 1..EngineVols |-> IF v = EngineVols THEN occ ELSE att[v]]
  /\ incidents \in {[i \in Incidents |-> IncidentAbsent],
                    [i \in Incidents |-> [existe |-> (i = 1), stand |-> IF i = 1 THEN 1 ELSE NULL,
                                          statut |-> IF i = 1 THEN "OUVERT" ELSE "RESOLU"]]}
  /\ now = 0
  /\ last = Rien
  /\ journal = JournalVide
  /\ runs = [r \in Runs |-> RunAuRepos]

\* one engine request on each of these tables
NextEngine ==
  \/ /\ last.op = "init"
     /\ \E pool \in pools, ordre \in order_by_debut(vols_en_attente(vols, DOMAIN vols), vols),
           echecs \in echecs_possibles(vols_en_attente(vols, DOMAIN vols)) :
          /\ AllouerStandsView_post(pool, ordre, echecs)
          /\ journal' = Journal(vols, ordre, pool,
                                allouer_stands_optimise(vols, stands, ordre, pool, echecs))
          /\ UNCHANGED runs
  \/ /\ last.op = "init"
     /\ \E v \in DOMAIN vols : \E pool \in pools, echecs \in echecs_possibles({v}) :
          /\ reallocation_possible(vols, incidents, v)
          /\ reallouer_vol_unique(v, pool, echecs)
          /\ journal' = Journal(liberer_vol(vols, v), <<v>>, pool,
                                allouer_stands_optimise(liberer_vol(vols, v), stands, <<v>>, pool, echecs))
          /\ UNCHANGED runs

SpecEngine == InitEngine /\ [][NextEngine]_vars

\* ---- batch runs one after the other -----------------------------------------
\* AllouerStandsView.post on the engine's tables, with the detail of the run
\* kept in journal
BatchJournalise ==
  \E pool \in pools, ordre \in order_by_debut(vols_en_attente(vols, DOMAIN vols), vols),
     echecs \in echecs_possibles(vols_en_attente(vols, DOMAIN vols)) :
    /\ AllouerStandsView_post(pool, ordre, echecs)
    /\ journal' = Journal(vols, ordre, pool,
                          allouer_stands_optimise(vols, stands, ordre, pool, echecs))
    /\ UNCHANGED runs

\* a first batch run, and batch runs that follow a batch run with no other
\* request in between
NextRepeat ==
  \/ last.op = "init" /\ BatchJournalise
  \/ last.op = "batch" /\ BatchJournalise

\* the engine's tables with no incident and stand 1 the nearest
InitRepeat ==
  /\ InitEngine
  /\ \A i \in DOMAIN incidents : ~incidents[i].existe
  /\ stands[1].distance = 1

SpecRepeat == InitRepeat /\ [][NextRepeat]_vars

\* ---- engine runs that overlap in time --------------------------------------
\* One run of allouer_stands_optimise taken apart at its database accesses:
\* the flights are read when the loop starts (line 42), the stand pool when
\* the first flight with complete data scans it (line 57; the QuerySet caches
\* its rows from then on), each stand's conflict query reads the table as it
\* is at that moment (lines 66-71), and vol.save() writes the row object read
\* at the start with its new stand and status (lines 104-106).

\* the run goes on to its next flight, or ends
flight_suivant(run) ==
  [run EXCEPT !.k = @ + 1,
              !.best_stand = NULL,
              !.pc = IF run.k + 1 > Len(run.ordre) THEN "fini" ELSE "examen"]

\* lines 25-29 and 42: the waiting flights are read, ordered by start
Demarrer(r) ==
  /\ runs[r].pc = "repos"
  /\ \E ordre \in order_by_debut(vols_en_attente(vols, DOMAIN vols), vols) :
       runs' = [runs EXCEPT ![r] =
                  [@ EXCEPT !.lus = vols, !.ordre = ordre, !.k = 1,
                            !.pc = IF ordre = <<>> THEN "fini" ELSE "examen"]]
  /\ last' = [Rien EXCEPT !.op = "demarrer"]
  /\ UNCHANGED <<vols, stands, incidents, now, journal>>

\* lines 44-97: one flight's turn up to the choice of its stand
Examiner(r) ==
  /\ runs[r].pc = "examen"
  /\ LET v == runs[r].ordre[runs[r].k]
         vol == runs[r].lus[v]
     IN IF ~donnees_completes(vol)
          THEN runs' = [runs EXCEPT ![r] = flight_suivant([@ EXCEPT !.unallocated = @ + 1])]
          ELSE
            \E pool \in IF runs[r].pool_lu THEN {runs[r].pool}
                        ELSE order_by_distance(stands_actifs(stands, incidents), stands) :
              LET tailles == IF runs[r].pool_lu THEN runs[r].tailles ELSE stands
                  best_stand == parcourir_stands(vols, tailles, vol, pool, 1, NULL)
                  lu == [runs[r] EXCEPT !.pool = pool, !.tailles = tailles, !.pool_lu = TRUE]
              IN runs' = [runs EXCEPT ![r] =
                            IF best_stand = NULL
                              THEN flight_suivant([lu EXCEPT !.unallocated = @ + 1])
                              ELSE [lu EXCEPT !.best_stand = best_stand,
                                              !.pc = "enregistrement"]]
  /\ last' = [Rien EXCEPT !.op = "examiner", !.vol = runs[r].ordre[runs[r].k]]
  /\ UNCHANGED <<vols, stands, incidents, now, journal>>

\* lines 100-112: the flight is saved ALLOUE on the stand chosen
Enregistrer(r) ==
  /\ runs[r].pc = "enregistrement"
  /\ LET v == runs[r].ordre[runs[r].k]
     IN /\ vols' = [vols EXCEPT ![v] = [runs[r].lus[v] EXCEPT
                                          !.stand_alloue = runs[r].best_stand,
                                          !.statut = "ALLOUE"]]
        /\ last' = [Rien EXCEPT !.op = "enregistrer", !.vol = v,
                                !.stand = runs[r].best_stand, !.succes = TRUE]
  /\ runs' = [runs EXCEPT ![r] = flight_suivant([@ EXCEPT !.allocated = @ + 1])]
  /\ UNCHANGED <<stands, incidents, now, journal>>

\* lines 113-115: save() raises, the flight is counted unallocated
EnregistrerEchec(r) ==
  /\ runs[r].pc = "enregistrement"
  /\ runs' = [runs EXCEPT ![r] = flight_suivant([@ EXCEPT !.unallocated = @ + 1])]
  /\ last' = [Rien EXCEPT !.op = "enregistrer", !.vol = runs[r].ordre[runs[r].k],
                          !.stand = runs[r].best_stand]
  /\ UNCHANGED <<vols, stands, incidents, now, journal>>

\* footprint and distances of the stands, intervals of the flights
ConcHoraires == {<<1, 3>>, <<2, 3>>}

InitConcurrent ==
  /\ stands = [s \in Stands |->
                 [existe |-> TRUE, longueur |-> 2, largeur |-> 2,
                  distance |-> s, disponibilite |-> TRUE]]
  /\ \E h \in [Vols -> ConcHoraires] :
       vols = [v \in Vols |->
                 [existe |-> TRUE, debut |-> h[v][1], fin |-> h[v][2], avion |-> 2,
                  statut |-> "ATTENTE", stand_alloue |-> NULL]]
  /\ incidents = [i \in Incidents |-> IncidentAbsent]
  /\ now = 0
  /\ last = Rien
  /\ journal = JournalVide
  /\ runs = [r \in Runs |-> RunAuRepos]

\* the runs step one database access at a time; meanwhile an incident may be
\* declared on a stand and a stand may be put under maintenance
NextConcurrent ==
  \/ \E r \in Runs : Demarrer(r)
  \/ \E r \in Runs : Examiner(r)
  \/ \E r \in Runs : Enregistrer(r)
  \/ \E r \in Runs : EnregistrerEchec(r)
  \/ \E s \in Stands : IncidentCreateView_form_valid(s) /\ UNCHANGED <<journal, runs>>
  \/ \E s \in Stands :
       /\ stands[s].disponibilite
       /\ StandUpdateView_form_valid(s, <<stands[s].longueur, stands[s].largeur>>, FALSE)
       /\ UNCHANGED <<journal, runs>>

SpecConcurrent == InitConcurrent /\ [][NextConcurrent]_vars

\* one run stepping one database access at a time while the schedules of the
\* flights are edited
NextEdit ==
  \/ Demarrer(1)
  \/ Examiner(1)
  \/ Enregistrer(1)
  \/ EnregistrerEchec(1)
  \/ \E v \in Vols, h \in ConcHoraires :
       VolUpdateView_form_valid(v, h) /\ UNCHANGED <<journal, runs>>

SpecEdit == InitConcurrent /\ [][NextEdit]_vars

\* ==== properties ==========================================================
\* the ALLOUE flights of stand s in table V
Alloues(V, s) ==
  {v \in DOMAIN V : V[v].existe /\ V[v].statut = "ALLOUE" /\ V[v].stand_alloue = s}

\* two occupation intervals truly overlap (touching endpoints do not)
Chevauche(a, b) == a.debut < b.fin /\ b.debut < a.fin

\* the stand is blocked: under maintenance or under an active incident
Bloque(S, I, s) ==
  \/ ~S[s].disponibilite
  \/ \E i \in DOMAIN I : I[i].existe /\ I[i].stand = s /\ I[i].statut # "RESOLU"

\* the aircraft of flight row f fits stand row st
Tient(f, st) ==
  Avions[f.avion].longueur <= st.longueur /\ Avions[f.avion].largeur <= st.largeur

\* C1: no two ALLOUE flights of one stand have truly overlapping intervals.
C1_NoDoubleBooking ==
  \A s \in DOMAIN stands : \A f1, f2 \in Alloues(vols, s) :
    f1 # f2 => ~Chevauche(vols[f1], vols[f2])

\* C2: a flight has a stand if and only if its status is ALLOUE.
C2_StandStatusCoupling ==
  \A v \in DOMAIN vols :
    vols[v].existe => ((vols[v].stand_alloue # NULL) <=> (vols[v].statut = "ALLOUE"))

\* flight v of table V, if ALLOUE on a stand, fits that stand of table S
FitsItsStand(V, S, v) ==
  (V[v].existe /\ V[v].statut = "ALLOUE" /\ V[v].stand_alloue # NULL)
    => Tient(V[v], S[V[v].stand_alloue])

\* C3 as stated: in every state, every ALLOUE flight fits its stand, also
\* after the stand's dimensions were edited.
C3_Compatibility == \A v \in DOMAIN vols : FitsItsStand(vols, stands, v)

\* C3 as amended: a flight fits its stand when the engine allocates it, and
\* the only step after which an ALLOUE flight no longer fits is an edit of the
\* dimensions of the stand it holds.
C3_CompatibilityUntilStandEdit ==
  [][\A v \in DOMAIN vols :
       (FitsItsStand(vols, stands, v) /\ ~FitsItsStand(vols', stands', v))
         => /\ vols[v].existe /\ vols[v].statut = "ALLOUE"
            /\ vols'[v].stand_alloue = vols[v].stand_alloue
            /\ \/ stands'[vols[v].stand_alloue].longueur # stands[vols[v].stand_alloue].longueur
               \/ stands'[vols[v].stand_alloue].largeur # stands[vols[v].stand_alloue].largeur]_vars

\* C3 witness: the dimensions of a stand were edited while a flight was
\* allocated to it, and the flight no longer fits
C3_Witness ==
  /\ last.op = "stand_update"
  /\ last.modifie
  /\ \E v \in Alloues(vols, last.stand) : ~Tient(vols[v], stands[last.stand])

\* C4: a step that puts a flight on a stand (ALLOUE on a stand it was not
\* ALLOUE on before) puts it on a stand that is available and has no active
\* incident.
C4_BlockedStandsReceiveNothing ==
  [][\A v \in DOMAIN vols :
       (/\ vols'[v].statut = "ALLOUE"
        /\ vols'[v].stand_alloue # NULL
        /\ (vols[v].statut # "ALLOUE" \/ vols[v].stand_alloue # vols'[v].stand_alloue))
         => /\ stands'[vols'[v].stand_alloue].existe
            /\ ~Bloque(stands', incidents', vols'[v].stand_alloue)]_vars

\* C4 witness: a batch run allocated a flight while a blocked stand that fits
\* the flight stood empty
C4_Witness ==
  /\ last.op = "batch"
  /\ last.allocated > 0
  /\ \E s \in DOMAIN stands, v \in DOMAIN vols :
       /\ stands[s].existe /\ Bloque(stands, incidents, s) /\ Alloues(vols, s) = {}
       /\ vols[v].existe /\ vols[v].statut = "ALLOUE" /\ vols[v].stand_alloue # NULL
       /\ Tient(vols[v], stands[s])

\* C5: when the cascade releases n > 0 flights, the engine then runs on those
\* n flights: allocated + unallocated = n.
C5_CascadeRematching ==
  (last.op \in {"incident_create", "incident_update"} /\ last.count > 0)
    => last.allocated + last.unallocated = last.count

\* C6: a schedule edit that changes the start or the end of an ALLOUE flight
\* leaves it ATTENTE without stand; an edit that changes neither leaves status
\* and stand as they were.
C6_ScheduleEditReleases ==
  [][\A v \in DOMAIN vols, h \in Horaires :
       VolUpdateView_form_valid(v, h)
         => IF h[1] # vols[v].debut \/ h[2] # vols[v].fin
              THEN vols[v].statut = "ALLOUE"
                     => (vols'[v].statut = "ATTENTE" /\ vols'[v].stand_alloue = NULL)
              ELSE /\ vols'[v].statut = vols[v].statut
                   /\ vols'[v].stand_alloue = vols[v].stand_alloue]_vars

\* ---- the engine's choices, read from the journal of the last run ---------
\* the table as it stood when turn k of the last run began: the start table
\* with the commits of the turns before k
TableAuTour(k) ==
  [v \in DOMAIN journal.avant |->
     IF \E j \in 1..(k - 1) : journal.trace[j].vol = v /\ journal.trace[j].ok
       THEN [journal.avant[v] EXCEPT
               !.statut = "ALLOUE",
               !.stand_alloue =
                 journal.trace[CHOOSE j \in 1..(k - 1) :
                                 journal.trace[j].vol = v /\ journal.trace[j].ok].best_stand]
       ELSE journal.avant[v]]

\* stand s holds an ALLOUE flight that truly overlaps [d, f)
Occupe(V, s, d, f) ==
  \E e \in Alloues(V, s) : V[e].fin > d /\ V[e].debut < f

\* the flight of turn k
VolDuTour(k) == journal.avant[journal.trace[k].vol]

\* the positions of the pool whose stand fits the flight of turn k and is
\* free of conflict on its interval when the turn begins
Candidats(k) ==
  {i \in 1..Len(journal.pool) :
     /\ Tient(VolDuTour(k), stands[journal.pool[i]])
     /\ ~Occupe(TableAuTour(k), journal.pool[i], VolDuTour(k).debut, VolDuTour(k).fin)}

\* those whose stand has exactly the aircraft's length and width
CandidatsExacts(k) ==
  {i \in Candidats(k) :
     /\ stands[journal.pool[i]].longueur = Avions[VolDuTour(k).avion].longueur
     /\ stands[journal.pool[i]].largeur = Avions[VolDuTour(k).avion].largeur}

Aire(s) == stands[s].longueur * stands[s].largeur

\* the turns of the last run in which stands were examined
ToursExamines == {k \in 1..Len(journal.trace) : journal.trace[k].examine}

\* C7: when some fitting, conflict-free stand of the pool is an exact match,
\* the stand chosen is the first exact match in scan order.
C7_ExactMatchPriority ==
  \A k \in ToursExamines :
    CandidatsExacts(k) # {} =>
      \E i \in CandidatsExacts(k) :
        /\ \A j \in CandidatsExacts(k) : i <= j
        /\ journal.trace[k].best_stand = journal.pool[i]

\* C7 witness: the engine chose an exact match scanned after a larger stand
\* that fitted and was free
C7_Witness ==
  \E k \in ToursExamines : \E i \in CandidatsExacts(k) :
    /\ journal.trace[k].best_stand = journal.pool[i]
    /\ \E j \in Candidats(k) \ CandidatsExacts(k) : j < i

\* C8: without exact match, the stand chosen is the fitting, conflict-free
\* stand of least area, the first in scan order among those of least area;
\* the scan order is the eligible stands by ascending distance; no stand is
\* chosen exactly when no eligible stand fits and is free.
C8_SmallestCompatible ==
  /\ last.op \in {"batch", "reallouer"}
       => /\ {journal.pool[i] : i \in 1..Len(journal.pool)}
               = {s \in DOMAIN stands : stands[s].existe /\ ~Bloque(stands, incidents, s)}
          /\ \A i, j \in 1..Len(journal.pool) :
               i < j => stands[journal.pool[i]].distance <= stands[journal.pool[j]].distance
  /\ \A k \in ToursExamines :
       /\ (journal.trace[k].best_stand = NULL) <=> (Candidats(k) = {})
       /\ (CandidatsExacts(k) = {} /\ Candidats(k) # {}) =>
            \E i \in Candidats(k) :
              /\ \A j \in Candidats(k) :
                   \/ Aire(journal.pool[i]) < Aire(journal.pool[j])
                   \/ (Aire(journal.pool[i]) = Aire(journal.pool[j]) /\ i <= j)
              /\ journal.trace[k].best_stand = journal.pool[i]

\* C8 witness: without exact match, the engine chose a stand scanned after a
\* larger one that fitted and was free, and passed over a later stand of the
\* same area
C8_Witness ==
  \E k \in ToursExamines : \E i \in Candidats(k) :
    /\ CandidatsExacts(k) = {}
    /\ journal.trace[k].best_stand = journal.pool[i]
    /\ \E j \in Candidats(k) : j < i /\ Aire(journal.pool[j]) > Aire(journal.pool[i])
    /\ \E j \in Candidats(k) : j > i /\ Aire(journal.pool[j]) = Aire(journal.pool[i])

\* C9: the engine's check reports a conflict for stand s and [d, f) exactly
\* when an ALLOUE flight of s has fin > d and debut < f; flights of s that
\* are ATTENTE or TERMINE, and flights that only touch [d, f), do not count.
C9_OverlapCheck ==
  \A s \in DOMAIN stands : \A h \in EngineHoraires :
    conflict_exists(vols, s, h[1], h[2]) <=> Occupe(vols, s, h[1], h[2])

\* C9 witness: after a run, a stand holds two flights that touch, and a
\* TERMINE flight that overlaps one of them
C9_Witness ==
  /\ last.op = "batch"
  /\ \E s \in DOMAIN stands : \E a, b \in Alloues(vols, s), t \in DOMAIN vols :
       /\ vols[a].fin = vols[b].debut
       /\ journal.avant[b].statut = "ATTENTE"
       /\ vols[t].statut = "TERMINE" /\ vols[t].stand_alloue = s
       /\ Chevauche(vols[t], vols[b])
       /\ ~conflict_exists(journal.avant, s, vols[b].debut, vols[b].fin)
       /\ conflict_exists(vols, s, vols[b].debut, vols[b].fin)

\* the stands of the last run's pool that fit the flight of turn k
StandsQuiTiennent(k) ==
  {journal.pool[i] : i \in {j \in 1..Len(journal.pool) :
                              Tient(VolDuTour(k), stands[journal.pool[j]])}}

\* turns k1, k2 of the last batch run hold two flights with complete data
\* and overlapping intervals, the first starting earlier, that both fit stand
\* s of the pool and no other
DeuxVolsPourUnStand(k1, k2, s) ==
  /\ k1 \in ToursExamines /\ k2 \in ToursExamines
  /\ VolDuTour(k1).debut < VolDuTour(k2).debut
  /\ Chevauche(VolDuTour(k1), VolDuTour(k2))
  /\ StandsQuiTiennent(k1) = {s}
  /\ StandsQuiTiennent(k2) = {s}

\* after the run, the flight of turn k1 holds s and the flight of turn k2
\* still waits and was counted unallocated
PremierServi(k1, k2, s) ==
  /\ vols[journal.trace[k1].vol].statut = "ALLOUE"
  /\ vols[journal.trace[k1].vol].stand_alloue = s
  /\ vols[journal.trace[k2].vol].statut = "ATTENTE"
  /\ vols[journal.trace[k2].vol].stand_alloue = NULL
  /\ ~journal.trace[k2].ok
  /\ last.unallocated >= 1

\* the flights of the last run were taken by ascending start
OrdreCroissant ==
  \A i, j \in 1..Len(journal.ordre) :
    (i < j /\ journal.avant[journal.ordre[i]].debut # NULL
           /\ journal.avant[journal.ordre[j]].debut # NULL)
      => journal.avant[journal.ordre[i]].debut <= journal.avant[journal.ordre[j]].debut

\* C10 as stated: a batch run takes the flights by ascending start, and of
\* two overlapping waiting flights that both fit only one eligible stand the
\* one that starts earlier gets the stand and the other keeps waiting.
C10_FirstComeFirstServed ==
  last.op = "batch" =>
    /\ OrdreCroissant
    /\ \A k1, k2 \in 1..Len(journal.trace) : \A s \in DOMAIN stands :
         DeuxVolsPourUnStand(k1, k2, s) => PremierServi(k1, k2, s)

\* the stand is free for the flight of turn k when its turn begins, and the
\* save() of that flight does not raise
LibreEtEnregistre(k, s) ==
  /\ ~Occupe(TableAuTour(k), s, VolDuTour(k).debut, VolDuTour(k).fin)
  /\ (journal.trace[k].best_stand = NULL \/ journal.trace[k].ok)

\* C10 as amended: the same, provided the stand is free of conflict for the
\* earlier flight when its turn begins and the save of that flight succeeds.
C10_FirstComeFirstServedWhenFree ==
  last.op = "batch" =>
    /\ OrdreCroissant
    /\ \A k1, k2 \in 1..Len(journal.trace) : \A s \in DOMAIN stands :
         (DeuxVolsPourUnStand(k1, k2, s) /\ LibreEtEnregistre(k1, s))
           => PremierServi(k1, k2, s)

\* C10 witness: such a pair of flights went through a batch run
C10_Witness ==
  /\ last.op = "batch"
  /\ \E k1, k2 \in 1..Len(journal.trace) : \E s \in DOMAIN stands :
       /\ DeuxVolsPourUnStand(k1, k2, s)
       /\ LibreEtEnregistre(k1, s)
       /\ PremierServi(k1, k2, s)

\* ---- the counts of a batch run ---------------------------------------------
\* the flights that waited when the last run began
EnAttenteAvant ==
  {v \in DOMAIN journal.avant : journal.avant[v].existe /\ journal.avant[v].statut = "ATTENTE"}

\* the flights the last run moved from ATTENTE to ALLOUE
PassesAlloues == {v \in EnAttenteAvant : vols[v].statut = "ALLOUE"}

\* the turns of the last run that committed a stand, and those that did not
ToursReussis == {k \in 1..Len(journal.trace) : journal.trace[k].ok}

ToursManques == {k \in 1..Len(journal.trace) : ~journal.trace[k].ok}

\* every flight that waited got exactly one turn
UnTourParVol ==
  /\ \A v \in EnAttenteAvant : \E k \in 1..Len(journal.trace) : journal.trace[k].vol = v
  /\ \A j, k \in 1..Len(journal.trace) :
       journal.trace[j].vol = journal.trace[k].vol => j = k
  /\ \A k \in 1..Len(journal.trace) : journal.trace[k].vol \in EnAttenteAvant

Incomplet(f) == f.avion = NULL \/ f.debut = NULL \/ f.fin = NULL

\* C13: a waiting flight of a batch that lacks aircraft, start or end gets one
\* turn, in which no stand is examined; it adds one to unallocated and stays
\* ATTENTE without stand.
C13_IncompleteDataNeverMatches ==
  last.op = "batch" =>
    /\ \A v \in EnAttenteAvant :
         Incomplet(journal.avant[v]) =>
           /\ \E k \in 1..Len(journal.trace) :
                /\ journal.trace[k].vol = v
                /\ ~journal.trace[k].examine
                /\ journal.trace[k].best_stand = NULL
                /\ ~journal.trace[k].ok
                /\ \A j \in 1..Len(journal.trace) : journal.trace[j].vol = v => j = k
           /\ vols[v] = journal.avant[v]
           /\ vols[v].statut = "ATTENTE" /\ vols[v].stand_alloue = NULL
    /\ last.unallocated = Cardinality(ToursManques)
    /\ last.allocated = Cardinality(ToursReussis)

\* C13 witness: a flight with an aircraft but without start was passed over
\* while a stand that fits its aircraft stayed empty, and another flight of
\* the run was allocated
C13_Witness ==
  /\ last.op = "batch"
  /\ last.allocated >= 1
  /\ \E v \in EnAttenteAvant : \E s \in DOMAIN stands :
       /\ journal.avant[v].avion # NULL /\ journal.avant[v].debut = NULL
       /\ vols[v].statut = "ATTENTE"
       /\ \E i \in 1..Len(journal.pool) : journal.pool[i] = s
       /\ Alloues(vols, s) = {}
       /\ compatible(Avions[journal.avant[v].avion], stands[s])

\* the turns of the last run whose commit failed: a stand was chosen and
\* the flight was not saved
ToursEchoues ==
  {k \in 1..Len(journal.trace) : journal.trace[k].best_stand # NULL /\ ~journal.trace[k].ok}

PersonneEnAttente(V) == \A v \in DOMAIN V : ~(V[v].existe /\ V[v].statut = "ATTENTE")

\* C12: a batch run that finds no waiting flight returns (0, 0) and leaves
\* every flight, stand and incident as it was.
C12_EmptyBatch ==
  [][(last'.op = "batch" /\ PersonneEnAttente(vols))
       => /\ last'.allocated = 0 /\ last'.unallocated = 0
          /\ vols' = vols /\ stands' = stands /\ incidents' = incidents]_vars

\* C12 witness: a batch run found no waiting flight although the table holds
\* an allocated flight and a free stand
C12_Witness ==
  /\ last.op = "batch"
  /\ last.allocated = 0 /\ last.unallocated = 0
  /\ PersonneEnAttente(vols)
  /\ \E v \in DOMAIN vols : vols[v].existe /\ vols[v].statut = "ALLOUE"
  /\ \E s \in DOMAIN stands : stands[s].existe /\ Alloues(vols, s) = {}

\* stand s has an incident that is OUVERT or ENCOURS
SousIncident(I, s) ==
  \E i \in DOMAIN I : I[i].existe /\ I[i].stand = s /\ I[i].statut # "RESOLU"

\* a request to reallocate flight v must be rejected
Rejet(v) ==
  \/ ~vols[v].existe
  \/ vols[v].statut # "ALLOUE"
  \/ vols[v].stand_alloue = NULL
  \/ ~SousIncident(incidents, vols[v].stand_alloue)

\* C15: a reallocation request for a flight that does not exist, is not
\* ALLOUE, has no stand, or whose stand has no active incident, reports
\* failure and changes no flight, stand or incident.
C15_ReallocationRejected ==
  [][(last'.op = "reallouer" /\ Rejet(last'.vol))
       => /\ ~last'.succes
          /\ vols' = vols /\ stands' = stands /\ incidents' = incidents]_vars

\* C15 witness: a reallocation was refused for a flight that is ALLOUE on a
\* stand without active incident
C15_Witness ==
  /\ last.op = "reallouer"
  /\ ~last.succes /\ ~last.modifie
  /\ vols[last.vol].existe /\ vols[last.vol].statut = "ALLOUE"
  /\ vols[last.vol].stand_alloue # NULL
  /\ ~SousIncident(incidents, vols[last.vol].stand_alloue)

\* C16: a reallocation whose preconditions hold ends either with success and
\* the flight ALLOUE on the stand the engine chose, or with failure and the
\* flight ATTENTE without stand; no other flight changes.
C16_ReallocationOutcome ==
  last.op = "reallouer" =>
    /\ \/ /\ last.succes
          /\ vols[last.vol].statut = "ALLOUE"
          /\ journal.trace[1].best_stand # NULL
          /\ vols[last.vol].stand_alloue = journal.trace[1].best_stand
       \/ /\ ~last.succes
          /\ vols[last.vol].statut = "ATTENTE"
          /\ vols[last.vol].stand_alloue = NULL
    /\ \A w \in DOMAIN vols : w # last.vol => vols[w] = journal.avant[w]

\* C16 witness: a flight was moved from a stand under incident to another
\* stand while other flights were waiting
C16_Witness ==
  /\ last.op = "reallouer"
  /\ last.succes
  /\ vols[last.vol].stand_alloue # last.stand
  /\ SousIncident(incidents, last.stand)
  /\ \E w \in DOMAIN vols : w # last.vol /\ vols[w].statut = "ATTENTE"

\* the flights a cascade on stand s must release: ALLOUE on s and starting
\* strictly after now
ARelacher(s) ==
  {v \in DOMAIN vols : /\ vols[v].existe /\ vols[v].stand_alloue = s
                       /\ vols[v].statut = "ALLOUE"
                       /\ vols[v].debut # NULL /\ vols[v].debut > now}

\* C17: the cascade run by an incident creation on stand s releases exactly
\* the flights ALLOUE on s that start strictly after now and returns their
\* number; a released flight is ATTENTE without stand, or ALLOUE on another
\* stand if the engine re-matched it; every other flight stays as it was.
C17_CascadeScope ==
  [][last'.op = "incident_create"
       => /\ last'.count = Cardinality(ARelacher(last'.stand))
          /\ \A v \in ARelacher(last'.stand) :
               \/ vols'[v].statut = "ATTENTE" /\ vols'[v].stand_alloue = NULL
               \/ vols'[v].statut = "ALLOUE" /\ vols'[v].stand_alloue \notin {NULL, last'.stand}
          /\ \A v \in DOMAIN vols \ ARelacher(last'.stand) : vols'[v] = vols[v]]_vars

\* C17 witness: a cascade released a flight of the stand and left alone a
\* flight of the same stand whose occupation had begun
C17_Witness ==
  /\ last.op = "incident_create"
  /\ last.count >= 1
  /\ \E v \in Alloues(vols, last.stand) : vols[v].debut <= now
  /\ \E v \in DOMAIN vols : vols[v].existe /\ vols[v].statut = "ATTENTE" /\ vols[v].debut > now

\* C18: when an incident creation on stand s completes, the incident is
\* stored OUVERT on s and no flight ALLOUE on s starts strictly after now.
C18_CascadeOnCreation ==
  last.op = "incident_create" =>
    /\ incidents[last.incident].existe
    /\ incidents[last.incident].stand = last.stand
    /\ incidents[last.incident].statut = "OUVERT"
    /\ ARelacher(last.stand) = {}

\* C18 witness: an incident creation released a flight of its stand
C18_Witness ==
  /\ last.op = "incident_create"
  /\ last.count >= 1
  /\ incidents[last.incident].statut = "OUVERT"
  /\ Alloues(vols, last.stand) = {}

\* C19: when an incident update takes a stored RESOLU to OUVERT or ENCOURS
\* (last.modifie), no flight ALLOUE on the incident's stand starts strictly
\* after now once the update completes; any other update releases nothing.
C19_CascadeOnReopen ==
  last.op = "incident_update" =>
    /\ last.modifie => ARelacher(last.stand) = {}
    /\ ~last.modifie => last.count = 0

RequetesMoteur == {"batch", "incident_create", "incident_update"}

\* C21: a flight becomes ALLOUE only from ATTENTE, in a request that runs the
\* engine, and on a stand; the stand of an ALLOUE flight changes to another
\* stand only in a forced reallocation, which releases the flight and runs
\* the engine on it.
C21_OnlyEngineAllocates ==
  [][\A v \in DOMAIN vols :
       /\ (vols[v].statut # "ALLOUE" /\ vols'[v].statut = "ALLOUE")
            => /\ vols[v].existe /\ vols[v].statut = "ATTENTE"
               /\ last'.op \in RequetesMoteur
               /\ vols'[v].stand_alloue # NULL
       /\ (/\ vols[v].statut = "ALLOUE" /\ vols'[v].statut = "ALLOUE"
           /\ vols'[v].stand_alloue # vols[v].stand_alloue
           /\ vols'[v].stand_alloue # NULL)
            => (last'.op = "reallouer" /\ last'.vol = v /\ last'.succes)]_vars

\* C21 witness: a forced reallocation moved an ALLOUE flight to another stand
\* while a TERMINE flight and its stand stayed as they were
C21_Witness ==
  /\ last.op = "reallouer"
  /\ last.succes
  /\ vols[last.vol].statut = "ALLOUE"
  /\ vols[last.vol].stand_alloue \notin {NULL, last.stand}
  /\ \E w \in DOMAIN vols : vols[w].existe /\ vols[w].statut = "TERMINE"

\* the flights the sweep must mark at this instant: ALLOUE with end <= now
AArchiver ==
  {v \in DOMAIN vols : /\ vols[v].existe /\ vols[v].statut = "ALLOUE"
                       /\ vols[v].fin # NULL /\ vols[v].fin <= now}

\* C22: the sweep sets TERMINE exactly the ALLOUE flights whose end is <= now,
\* returns their number and leaves the status of every other flight alone.
C22_SweepRule ==
  [][last'.op = "liberer"
       => /\ last'.count = Cardinality(AArchiver)
          /\ \A v \in AArchiver : vols'[v].statut = "TERMINE"
          /\ \A v \in DOMAIN vols \ AArchiver : vols'[v].statut = vols[v].statut]_vars

\* C22 witness: a sweep marked a flight whose end is now and left ALLOUE a
\* flight that ends later
C22_Witness ==
  /\ last.op = "liberer"
  /\ last.count >= 1
  /\ \E v \in DOMAIN vols : vols[v].existe /\ vols[v].statut = "TERMINE" /\ vols[v].fin = now
  /\ \E v \in DOMAIN vols : vols[v].existe /\ vols[v].statut = "ALLOUE" /\ vols[v].fin > now

\* ---- derived stand state ---------------------------------------------------
\* stand s is out of service: not available or under an active incident
HorsService(s) == ~stands[s].disponibilite \/ SousIncident(incidents, s)

\* C23: the operational state of a stand is HORS_SERVICE iff it is not
\* available or has an active incident; otherwise OCCUPE iff some ALLOUE
\* flight references it, whatever the flight's interval; otherwise LIBRE.
C23_OperationalState ==
  \A s \in DOMAIN stands :
    stands[s].existe =>
      /\ (statut_operationnel(stands, incidents, vols, s) = "HORS_SERVICE") <=> HorsService(s)
      /\ ~HorsService(s) =>
           /\ (statut_operationnel(stands, incidents, vols, s) = "OCCUPE")
                <=> (Alloues(vols, s) # {})
           /\ (statut_operationnel(stands, incidents, vols, s) = "LIBRE")
                <=> (Alloues(vols, s) = {})

\* C23 witness: one stand is available but under an active incident, hence
\* HORS_SERVICE although a flight is allocated to it, and another stand is
\* OCCUPE by flights that have not begun
C23_Witness ==
  /\ \E s \in DOMAIN stands :
       /\ stands[s].existe /\ stands[s].disponibilite /\ SousIncident(incidents, s)
       /\ Alloues(vols, s) # {}
       /\ statut_operationnel(stands, incidents, vols, s) = "HORS_SERVICE"
  /\ \E s \in DOMAIN stands :
       /\ stands[s].existe
       /\ statut_operationnel(stands, incidents, vols, s) = "OCCUPE"
       /\ \A v \in Alloues(vols, s) : vols[v].debut > now

\* C24: at every instant each stand has at most one ALLOUE flight whose
\* interval contains now, so the current occupant read from the stand is
\* one definite value.
C24_UniqueCurrentOccupant ==
  \A s \in DOMAIN stands :
    stands[s].existe =>
      /\ Cardinality(occupants_actuels(vols, s, now)) <= 1
      /\ Cardinality(vol_occupant_actuel(vols, s, now)) = 1

PeutRecevoir(s, v) ==
  /\ stands[s].existe
  /\ ~Bloque(stands, incidents, s)
  /\ Tient(vols[v], stands[s])
  /\ \A w \in Alloues(vols, s) \ {v} : ~Chevauche(vols[w], vols[v])

\* C25: when a schedule edit has changed the start or the end of a flight
\* that was ALLOUE, the flight is ALLOUE again, on a stand that can take it,
\* whenever some stand can take it on its new interval.
C25_ScheduleEditRematches ==
  (last.op = "vol_update" /\ last.succes /\ last.modifie) =>
    ((\E s \in DOMAIN stands : PeutRecevoir(s, last.vol))
       => /\ vols[last.vol].statut = "ALLOUE"
          /\ vols[last.vol].stand_alloue # NULL
          /\ PeutRecevoir(vols[last.vol].stand_alloue, last.vol))

\* row b is row a but for status and stand
MemeVol(a, b) ==
  [b EXCEPT !.statut = a.statut, !.stand_alloue = a.stand_alloue] = a

\* C28: a batch run changes only status and stand of flights that waited
\* when it began; other flights, stands and incidents stay as they were, a
\* flight committed in a turn still holds that stand when the run ends, and a
\* run on one flight leaves every other flight alone.
C28_GreedyFrame ==
  [][/\ last'.op \in {"batch", "reallouer"}
          => /\ stands' = stands /\ incidents' = incidents
             /\ \A k \in 1..Len(journal'.trace) :
                  journal'.trace[k].ok =>
                    /\ vols'[journal'.trace[k].vol].statut = "ALLOUE"
                    /\ vols'[journal'.trace[k].vol].stand_alloue = journal'.trace[k].best_stand
     /\ last'.op = "batch"
          => \A v \in DOMAIN vols :
               /\ ~(vols[v].existe /\ vols[v].statut = "ATTENTE") => vols'[v] = vols[v]
               /\ MemeVol(vols[v], vols'[v])
     /\ last'.op = "reallouer"
          => \A v \in DOMAIN vols :
               /\ v # last'.vol => vols'[v] = vols[v]
               /\ MemeVol(vols[v], vols'[v])]_vars

\* C28 witness: a batch run committed two flights and a flight that was
\* ALLOUE before the run is as it was
C28_Witness ==
  /\ last.op = "batch"
  /\ last.allocated >= 2
  /\ \E w \in DOMAIN vols :
       journal.avant[w].statut = "ALLOUE" /\ vols[w] = journal.avant[w]

\* C29: a batch run from a given table has one possible outcome: whatever
\* order the database returns rows of equal distance or equal start in, the
\* run ends in the same table with the same counts (no save() failing).
C29_DeterministicSelection ==
  (last.op = "batch" /\ ToursEchoues = {}) =>
    \A pool2 \in order_by_distance(stands_actifs(stands, incidents), stands) :
      \A ordre2 \in order_by_debut(EnAttenteAvant, journal.avant) :
        /\ allouer_stands_optimise(journal.avant, stands, ordre2, pool2, {}).vols = vols
        /\ allouer_stands_optimise(journal.avant, stands, ordre2, pool2, {}).allocated
             = last.allocated
        /\ allouer_stands_optimise(journal.avant, stands, ordre2, pool2, {}).unallocated
             = last.unallocated

\* ---- runs that overlap in time ---------------------------------------------
\* C26: with engine runs interleaved at their database accesses, no two
\* ALLOUE flights of one stand have truly overlapping intervals.
C26_NoDoubleBookingConcurrent ==
  \A f1, f2 \in DOMAIN vols :
    (/\ f1 # f2
     /\ vols[f1].statut = "ALLOUE" /\ vols[f2].statut = "ALLOUE"
     /\ vols[f1].stand_alloue # NULL
     /\ vols[f1].stand_alloue = vols[f2].stand_alloue)
      => ~(vols[f1].debut < vols[f2].fin /\ vols[f2].debut < vols[f1].fin)

\* C27: a run that has read its stand pool never saves a flight ALLOUE on a
\* stand that has since been put under incident or under maintenance.
C27_BlockedAfterPoolFetch ==
  [][\A r \in Runs :
       (runs[r].pc = "enregistrement" /\ runs'[r].allocated = runs[r].allocated + 1)
         => ~Bloque(stands, incidents, runs[r].best_stand)]_vars

\* ---- blocked stands, repeated runs, forced moves ----------------------------
\* no stand under an active incident in table I has, in table V, an ALLOUE
\* flight that starts strictly after t
SansFuturSurBloque(V, I, t) ==
  \A s \in DOMAIN stands :
    SousIncident(I, s) => vols_futurs(V, s, t) = {}

\* the requests after which a blocked stand must hold no future allocation
RequetesGardantLeBlocage ==
  {"incident_create", "incident_update", "batch", "reallouer", "vol_update"}

\* C31: an incident creation, incident update, batch run, reallocation or
\* schedule edit that starts with no future ALLOUE flight on any stand under
\* an active incident ends with none either.
C31_BlockedStandHoldsNoFuture ==
  [][(last'.op \in RequetesGardantLeBlocage /\ SansFuturSurBloque(vols, incidents, now))
       => SansFuturSurBloque(vols', incidents', now')]_vars

\* C32: a batch run that directly follows a batch run in which no save()
\* failed allocates nothing, counts as unallocated exactly the flights that
\* are still ATTENTE, and leaves flights, stands and incidents as they were.
C32_BatchIdempotent ==
  [][(last.op = "batch" /\ last'.op = "batch" /\ ToursEchoues = {})
       => /\ last'.allocated = 0
          /\ last'.unallocated = Cardinality(vols_en_attente(vols, DOMAIN vols))
          /\ vols' = vols /\ stands' = stands /\ incidents' = incidents]_vars

\* C32 witness: a batch run has started from a table in which an earlier run
\* had already allocated a flight, found a flight with complete data still
\* waiting, and ended with nothing allocated and the table as it was
C32_Witness ==
  /\ last.op = "batch"
  /\ Cardinality({v \in DOMAIN journal.avant : journal.avant[v].statut = "ALLOUE"}) >= 2
  /\ \E k \in 1..Len(journal.trace) :
       /\ donnees_completes(journal.avant[journal.trace[k].vol])
       /\ journal.trace[k].best_stand = NULL
  /\ last.allocated = 0 /\ last.unallocated >= 1
  /\ vols = journal.avant

\* C33: after a reallocation that reports success, the flight is on a stand
\* other than the one it had before the call, and that stand is available
\* and has no active incident.
C33_ReallocationLeavesBlockedStand ==
  (last.op = "reallouer" /\ last.succes) =>
    /\ vols[last.vol].stand_alloue # NULL
    /\ vols[last.vol].stand_alloue # last.stand
    /\ stands[vols[last.vol].stand_alloue].disponibilite
    /\ ~SousIncident(incidents, vols[last.vol].stand_alloue)

\* C33 witness: a reallocation succeeded although the stand the flight came
\* from is now empty and large enough for it
C33_Witness ==
  /\ last.op = "reallouer"
  /\ last.succes
  /\ stands[last.stand].existe
  /\ Alloues(vols, last.stand) = {}
  /\ Tient(vols[last.vol], stands[last.stand])
  /\ stands[last.stand].disponibilite

\* C34: the save of flight F by a run changes only F's stand and status: the
\* stored interval and aircraft of F stay as they are, also when the schedule
\* of F was edited after the run had read F.
C34_CommitWritesStatusAndStand ==
  [][\A r \in Runs :
       (runs[r].pc = "enregistrement" /\ runs'[r].allocated = runs[r].allocated + 1)
         => LET F == runs[r].ordre[runs[r].k]
            IN /\ vols'[F].debut = vols[F].debut
               /\ vols'[F].fin = vols[F].fin
               /\ vols'[F].avion = vols[F].avion]_vars

\* ---- availability flag, stand deletion --------------------------------------
\* the requests that create, update or resolve an incident
RequetesIncident == {"incident_create", "incident_update", "incident_resolution"}

\* C35: no incident request changes the disponibilite of a stand; a stand put
\* under maintenance is still unavailable, and outside the pool, after its
\* last active incident is resolved.
C35_AvailabilityOnlyManual ==
  [][last'.op \in RequetesIncident
       => \A s \in DOMAIN stands :
            /\ stands'[s].disponibilite = stands[s].disponibilite
            /\ (stands[s].existe /\ ~stands[s].disponibilite)
                 => s \notin stands_actifs(stands', incidents')]_vars

\* C36: a request to delete stand s is refused, and flights, stands and
\* incidents stay as they were, when a flight ALLOUE on s starts strictly
\* after now; in every other case the stand is deleted.
C36_StandDeletionGuard ==
  [][last'.op = "stand_delete"
       => IF \E v \in DOMAIN vols : /\ vols[v].existe /\ vols[v].stand_alloue = last'.stand
                                    /\ vols[v].statut = "ALLOUE"
                                    /\ vols[v].debut # NULL /\ vols[v].debut > now
            THEN /\ ~last'.succes
                 /\ vols' = vols /\ stands' = stands /\ incidents' = incidents
            ELSE /\ last'.succes
                 /\ ~stands'[last'.stand].existe]_vars

\* C36 witness: the deletion of a stand was refused while one flight ALLOUE on
\* it had already started and another was still to come
C36_Witness ==
  /\ last.op = "stand_delete"
  /\ ~last.succes
  /\ stands[last.stand].existe
  /\ \E v, w \in Alloues(vols, last.stand) :
       /\ vols[v].debut > now
       /\ vols[w].debut <= now

====
